---- MODULE Spec2Model ----
(***************************************************************************)
(* Model of the NEM payment watcher (PaymentProcessor) and of the liveness *)
(* auditor (BlocksAuditor).                                                *)
(*                                                                         *)
(* Time is a millisecond clock `now`.  Timers created by setInterval and   *)
(* setTimeout carry their due time and fire once the clock has reached it; *)
(* the clock never advances past a timer that is due.                      *)
(***************************************************************************)
EXTENDS Integers, Sequences, FiniteSets, Bags, TLC

(* ------------------------------ bounds --------------------------------- *)
MaxPayTime == 60000
MaxAuditTime == 1200000
MaxAuditTimers == 3
MaxOpens == 2
MaxCalls == 2
MaxQueries == 1
MaxFailovers == 2
MaxBeats == 2
MaxHeight == 2

(* ------------------------- program constants --------------------------- *)
FallbackIntervalMs == 30000
DefaultDurationMs == 900000
AuditIntervalMs == 600000
MaxBlockAgeMs == 300000

\* the audit clock steps by the staleness threshold
AuditStepMs == MaxBlockAgeMs

(* --------------------------- model universe ---------------------------- *)
Nodes == {"n1", "n2"}
InitialNode == "n1"
Channels == {"c1", "c2"}
NoChannel == "none"
Statuses == {"unconfirmed", "confirmed"}
Gateways == {"SOCKET", "FALLBACK"}
ConsumerIds == {"s1", "s2"}
ConfReadDuration == [kind |-> "num", v |-> 60000]

\* A raw TransactionMetaDataPair: meta.hash.data, meta.innerHash.data (absent
\* for a plain transfer, possibly the empty string) and the channel the store's
\* matcher resolves it to.
Absent == [present |-> FALSE, data |-> ""]
Str(s) == [present |-> TRUE, data |-> s]
RawTxs ==
    { [hash |-> "A1", innerHash |-> Str(""),   match |-> "c2"],
      [hash |-> "A2", innerHash |-> Str("B1"), match |-> "c1"],
      [hash |-> "A3", innerHash |-> Str("B1"), match |-> "c1"] }

\* Connection-level errors, as word sequences.
ErrorTexts ==
    { <<"Whoops!", "Lost", "connection", "to", "ws://n1">>,
      <<"Lost", "connection", "to">>,
      <<"Lost", "connection">>,
      <<"connect", "ECONNREFUSED">> }

PayTopics == {"/errors", "/blocks/new", "/unconfirmed/addr", "/transactions/addr"}
AuditTopics == {"/errors", "/blocks/new"}

(* ------------------------------ helpers -------------------------------- *)
Min(S) == CHOOSE m \in S : \A k \in S : m <= k

Range(s) == { s[i] : i \in 1..Len(s) }

\* new RegExp(/Lost connection to/).test(error): the pattern occurs somewhere
\* in the text.
LostConnPattern == <<"Lost", "connection", "to">>
RegexpLostConnTestAlways(error) == TRUE
RegexpLostConnTest(error) ==
    \E i \in 1..Len(error) :
        /\ i + Len(LostConnPattern) - 1 <= Len(error)
        /\ SubSeq(error, i, i + Len(LostConnPattern) - 1) = LostConnPattern

\* JavaScript truthiness of `data && data.length`.
NonEmpty(d) == d.present /\ Len(d.data) > 0

\* PaymentProcessor.getTransactionHash
GetTransactionHashNoLength(transactionData) ==
    IF transactionData.innerHash.present
    THEN transactionData.innerHash.data
    ELSE transactionData.hash
GetTransactionHash(transactionData) ==
    IF NonEmpty(transactionData.innerHash)
    THEN transactionData.innerHash.data
    ELSE transactionData.hash

\* the hash computed inline by websocketChannelTransactionHandler
HandlerTrxHash(transactionMetaDataPair) ==
    LET outer == transactionMetaDataPair.hash
        inner == transactionMetaDataPair.innerHash
    IN  IF inner.present /\ Len(inner.data) # 0 THEN inner.data ELSE outer

\* The store's identifier of a transaction (inner hash if non-empty, else
\* outer hash).
NormalizedHash(tx) ==
    IF tx.innerHash.present /\ tx.innerHash.data # "" THEN tx.innerHash.data ELSE tx.hash

Hashes == { tx.hash : tx \in RawTxs } \cup { tx.innerHash.data : tx \in RawTxs }

(* ------------------------------- state --------------------------------- *)
VARIABLES
    now,            \* clock (ms)
    nodeSelection,  \* node-selection state of the chain data layer
    logged,         \* error lines written by logger().error: (tag, time)
    \* payment watcher
    pwState,        \* DISCONNECTED / CONNECTING / CONNECTED
    pwEndpoint,     \* endpoint of PaymentProcessor.nemsocket_
    pwTarget,       \* endpoint of the latest connectWS call
    pwSubs,         \* topics subscribed on the current connection
    pwAttempts,     \* connectWS calls whose callbacks are outstanding
    pwCause,        \* caller of the latest connectBlockchainSocket
    socketById,     \* registry: consumer id -> handle
    openChannels,   \* store: the payment channels that exist
    socketIds,      \* store: per channel, the sequence of consumer ids
    acknowledged,   \* store: acknowledged (channel, hash, status)
    incoming,       \* node: recent incoming transactions of the wallet
    queries,        \* incomingTransactions queries in flight
    pendingAcks,    \* acknowledgeTransaction calls in flight
    emitted,        \* updates sent to the backend
    undelivered,    \* updates sent that did not reach their consumer
    calls,          \* invocations of websocketChannelTransactionHandler
    windows,        \* timers created by forwardPaymentUpdates
    \* liveness auditor
    baState,
    baEndpoint,
    baSubs,
    baAttempts,
    auditTimers,
    heartbeats,
    heightQueries,
    failoversSinceBeat

payVars == <<pwState, pwEndpoint, pwTarget, pwSubs, pwAttempts, pwCause, socketById,
             openChannels, socketIds, acknowledged, incoming, queries, pendingAcks,
             emitted, undelivered, calls, windows>>
connVars == <<pwState, pwEndpoint, pwTarget, pwSubs, pwAttempts, pwCause>>
chanVars == <<socketById, openChannels, socketIds, acknowledged, incoming, queries,
              pendingAcks, emitted, undelivered, calls, windows>>
auditVars == <<baState, baEndpoint, baSubs, baAttempts, auditTimers,
               heartbeats, heightQueries, failoversSinceBeat>>
vars == <<now, nodeSelection, logged, payVars, auditVars>>

(* ------------------------------- Init ---------------------------------- *)
\* State after `new PaymentProcessor(chainDataLayer)` and
\* `new BlocksAuditor(chainDataLayer)`; no channel has been opened yet.
Init ==
    /\ now = 0
    /\ nodeSelection = InitialNode
    /\ logged = {}
    /\ pwState = "DISCONNECTED"
    /\ pwEndpoint = InitialNode
    /\ pwTarget = "null"
    /\ pwSubs = {}
    /\ pwAttempts = 0
    /\ pwCause = "none"
    /\ socketById = {}
    /\ openChannels = {}
    /\ socketIds = [c \in Channels |-> <<>>]
    /\ acknowledged = {}
    /\ incoming = {}
    /\ queries = 0
    /\ pendingAcks = EmptyBag
    /\ emitted = EmptyBag
    /\ undelivered = {}
    /\ calls = EmptyBag
    /\ windows = EmptyBag
    /\ baState = "DISCONNECTED"
    /\ baEndpoint = "null"
    /\ baSubs = {}
    /\ baAttempts = 0
    /\ auditTimers = EmptyBag
    /\ heartbeats = {}
    /\ heightQueries = 0
    /\ failoversSinceBeat = 0

(* ---------------- payment watcher: push-feed connection ---------------- *)
\* PaymentProcessor.connectBlockchainSocket: connectWS on the socket object
\* built by the constructor.
PWConnectTwice(caller) ==
    /\ pwCause' = caller
    /\ pwState' = "CONNECTING"
    /\ pwTarget' = pwEndpoint
    /\ pwSubs' = {}
    /\ pwAttempts' = 2
    /\ UNCHANGED pwEndpoint
PWConnectBlockchainSocket(caller) ==
    /\ pwCause' = caller
    /\ pwState' = "CONNECTING"
    /\ pwTarget' = pwEndpoint
    /\ pwSubs' = {}
    /\ pwAttempts' = 1
    /\ UNCHANGED pwEndpoint

\* the bot's bootstrap opens the connection once
PWStart ==
    /\ pwState = "DISCONNECTED"
    /\ PWConnectBlockchainSocket("bootstrap")
    /\ UNCHANGED <<now, nodeSelection, logged, chanVars, auditVars>>

\* the onReady callback of connectWS: the four subscribeWS calls
PWOnConnectedNoConfirmed ==
    /\ pwState = "CONNECTING"
    /\ pwState' = "CONNECTED"
    /\ pwSubs' = PayTopics \ {"/transactions/addr"}
    /\ pwAttempts' = pwAttempts - 1
    /\ UNCHANGED <<pwEndpoint, pwTarget, pwCause>>
    /\ UNCHANGED <<now, nodeSelection, logged, chanVars, auditVars>>
PWOnConnected ==
    /\ pwState = "CONNECTING"
    /\ pwState' = "CONNECTED"
    /\ pwSubs' = PayTopics
    /\ pwAttempts' = pwAttempts - 1
    /\ UNCHANGED <<pwEndpoint, pwTarget, pwCause>>
    /\ UNCHANGED <<now, nodeSelection, logged, chanVars, auditVars>>

\* logger().error(...): the error line is written
LogError(tag) == logged' = logged \cup {[tag |-> tag, at |-> now]}

\* websocketErrorHandler of the payment watcher
PWWebsocketErrorHandlerRescans(error) ==
    /\ pwState \in {"CONNECTING", "CONNECTED"}
    /\ IF RegexpLostConnTest(error)
       THEN /\ PWConnectBlockchainSocket("drop")
            /\ queries' = queries + 1
            /\ UNCHANGED logged
       ELSE LogError("PW-UNCAUGHT") /\ UNCHANGED <<connVars, queries>>
    /\ UNCHANGED <<socketById, openChannels, socketIds, undelivered, acknowledged,
                   incoming, pendingAcks, emitted, calls, windows>>
    /\ UNCHANGED <<now, nodeSelection, auditVars>>
PWWebsocketErrorHandler(error) ==
    /\ pwState \in {"CONNECTING", "CONNECTED"}
    /\ IF RegexpLostConnTest(error)
       THEN PWConnectBlockchainSocket("drop") /\ UNCHANGED logged
       ELSE LogError("PW-UNCAUGHT") /\ UNCHANGED connVars
    /\ UNCHANGED <<now, nodeSelection, chanVars, auditVars>>

(* ------------------- store contract (Channel Matcher) ------------------ *)
\* NEMPaymentChannel.matchTransactionToChannel: the channel the transaction
\* satisfies, if that channel exists in the store.
MatchTransactionToChannel(tx) ==
    IF tx.match \in openChannels
    THEN tx.match
    ELSE NoChannel

\* key under which NEMPaymentChannel.acknowledgeTransaction records a
\* transaction
AckKey(p) == <<p.chan, NormalizedHash(p.tx), p.status>>

\* the consumer registration done by the backend-facing server before it
\* calls forwardPaymentUpdates
RegisterConsumer(c, id) ==
    IF id \in Range(socketIds[c])
    THEN socketIds
    ELSE [socketIds EXCEPT ![c] = Append(@, id)]

\* the store holds a payment channel that was not opened through this
\* process: no consumer has registered on it yet, or its consumers registered
\* with another worker, so that no handle of theirs is held here
StoreOpensChannel(c, ids) ==
    /\ c \notin openChannels
    /\ openChannels' = openChannels \cup {c}
    /\ socketIds' = [socketIds EXCEPT ![c] = ids]
    /\ UNCHANGED <<socketById, undelivered, acknowledged, incoming,
                   queries, pendingAcks, emitted, calls, windows>>
    /\ UNCHANGED <<now, nodeSelection, logged, connVars, auditVars>>

(* -------------------- payment watcher: forwarding ---------------------- *)
Sockets ==
    { [id |-> "s1", conn |-> 1], [id |-> "s1", conn |-> 2], [id |-> "s2", conn |-> 1] }

HasSocket(id) == \E s \in socketById : s.id = id

\* websocketChannelTransactionHandler up to the acknowledgeTransaction call:
\* the values captured by the callback's closure
HandlerClosure(paymentChannel, tx, status, trxGateway, feedHash) ==
    LET ids == socketIds[paymentChannel]
        backendSocketId == IF Len(ids) > 0 THEN ids[Len(ids)] ELSE "undefined"
        forwardToSocket ==
            IF HasSocket(backendSocketId)
            THEN LET s == CHOOSE s \in socketById : s.id = backendSocketId
                 IN  [kind |-> "object", id |-> s.id, conn |-> s.conn]
            ELSE IF backendSocketId = "undefined"
                 THEN [kind |-> "undefined", id |-> "undefined", conn |-> 0]
                 ELSE [kind |-> "string", id |-> backendSocketId, conn |-> 0]
    IN  [chan |-> paymentChannel, tx |-> tx, status |-> status,
         gateway |-> trxGateway, backendSocketId |-> backendSocketId,
         forwardToSocket |-> forwardToSocket,
         trxHash |-> HandlerTrxHash(tx), feedHash |-> feedHash]

CallKind(p) ==
    [chan |-> p.chan, hash |-> p.trxHash, status |-> p.status, gateway |-> p.gateway]

\* what a push message or one entry of a scan result starts: the hash is
\* read, the transaction is matched and, on a match, the handler is called
Detect(tx, status, trxGateway) ==
    LET trxHash == GetTransactionHash(tx)
        paymentChannel == MatchTransactionToChannel(tx)
    IN  IF paymentChannel # NoChannel
        THEN {HandlerClosure(paymentChannel, tx, status, trxGateway, trxHash)}
        ELSE {}

StartAcks(closures) ==
    /\ BagCardinality(calls) + Cardinality(closures) <= MaxCalls
    /\ pendingAcks' = pendingAcks (+) SetToBag(closures)
    /\ calls' = calls (+) BagOfAll(CallKind, SetToBag(closures))

\* PaymentProcessor.emitPaymentUpdate: the emit calls it makes
EmitPaymentUpdate(forwardToSocket, p) ==
    IF forwardToSocket.kind = "object"
    THEN SetToBag({[chan |-> p.chan, hash |-> p.trxHash, status |-> p.status,
                    gateway |-> p.gateway, to |-> forwardToSocket.id,
                    conn |-> forwardToSocket.conn, via |-> "direct"]})
    ELSE IF forwardToSocket.kind = "string"
    THEN SetToBag({[chan |-> p.chan, hash |-> p.trxHash, status |-> p.status,
                    gateway |-> p.gateway, to |-> forwardToSocket.id,
                    conn |-> 0, via |-> "broadcast"]})
    ELSE EmptyBag

\* the callback given to acknowledgeTransaction, called with the channel on a
\* first acknowledgement and with false otherwise
AckCallbackAlways(p, first) ==
    emitted' = emitted (+) EmitPaymentUpdate(p.forwardToSocket, p)
AckCallback(p, first) ==
    IF first
    THEN emitted' = emitted (+) EmitPaymentUpdate(p.forwardToSocket, p)
    ELSE UNCHANGED emitted

\* acknowledgeTransaction completes in the store
AckDone(p) ==
    /\ BagIn(p, pendingAcks)
    /\ pendingAcks' = pendingAcks (-) SetToBag({p})
    /\ acknowledged' = acknowledged \cup {AckKey(p)}
    /\ AckCallback(p, AckKey(p) \notin acknowledged)
    /\ UNCHANGED <<socketById, openChannels, socketIds, undelivered,
                   incoming, queries, calls, windows>>
    /\ UNCHANGED <<now, nodeSelection, logged, connVars, auditVars>>

\* acknowledgeTransaction fails in the store: nothing is recorded and the
\* callback is not given a channel
AckFail(p) ==
    /\ BagIn(p, pendingAcks)
    /\ pendingAcks' = pendingAcks (-) SetToBag({p})
    /\ UNCHANGED <<socketById, openChannels, socketIds, undelivered,
                   acknowledged, incoming, queries,
                   emitted, calls, windows>>
    /\ UNCHANGED <<now, nodeSelection, logged, connVars, auditVars>>

\* an update handed to socket.io does not reach its consumer; the emit calls
\* of emitPaymentUpdate take no acknowledgement callback, so nothing in the
\* watcher runs
DeliveryFailsRollback(e) ==
    /\ e \in BagToSet(emitted)
    /\ \A u \in undelivered : u.update # e
    /\ undelivered' = undelivered \cup {[update |-> e, callsAt |-> BagCardinality(calls)]}
    /\ acknowledged' = acknowledged \ {<<e.chan, e.hash, e.status>>}
    /\ UNCHANGED <<socketById, openChannels, socketIds, incoming,
                   queries, pendingAcks, emitted, calls, windows>>
    /\ UNCHANGED <<now, nodeSelection, logged, connVars, auditVars>>
DeliveryFails(e) ==
    /\ e \in BagToSet(emitted)
    /\ \A u \in undelivered : u.update # e
    /\ undelivered' = undelivered \cup {[update |-> e, callsAt |-> BagCardinality(calls)]}
    /\ UNCHANGED <<socketById, openChannels, socketIds, acknowledged, incoming,
                   queries, pendingAcks, emitted, calls, windows>>
    /\ UNCHANGED <<now, nodeSelection, logged, connVars, auditVars>>

(* -------------------- payment watcher: push messages ------------------- *)
\* a transaction is included in a block of the node
NodeConfirms(tx) ==
    /\ tx \notin incoming
    /\ incoming' = incoming \cup {tx}
    /\ UNCHANGED <<socketById, openChannels, socketIds, undelivered,
                   acknowledged, queries, pendingAcks,
                   emitted, calls, windows>>
    /\ UNCHANGED <<now, nodeSelection, logged, connVars, auditVars>>

\* websocketFallbackHandler: the incomingTransactions request is sent
WebsocketFallbackHandler ==
    /\ queries < MaxQueries
    /\ queries' = queries + 1

\* subscription callback of /unconfirmed/{address}
PWOnUnconfirmed(tx) ==
    /\ "/unconfirmed/addr" \in pwSubs
    /\ Detect(tx, "unconfirmed", "SOCKET") # {}
    /\ StartAcks(Detect(tx, "unconfirmed", "SOCKET"))
    /\ UNCHANGED <<socketById, openChannels, socketIds, undelivered,
                   acknowledged, incoming, queries,
                   emitted, windows>>
    /\ UNCHANGED <<now, nodeSelection, logged, connVars, auditVars>>

\* subscription callback of /transactions/{address}
PWOnConfirmed(tx) ==
    /\ "/transactions/addr" \in pwSubs
    /\ tx \in incoming
    /\ Detect(tx, "confirmed", "SOCKET") # {}
    /\ StartAcks(Detect(tx, "confirmed", "SOCKET"))
    /\ UNCHANGED <<socketById, openChannels, socketIds, undelivered,
                   acknowledged, incoming, queries,
                   emitted, windows>>
    /\ UNCHANGED <<now, nodeSelection, logged, connVars, auditVars>>

\* every transaction of an incomingTransactions result is matched and handled
\* with status "confirmed"
FallbackClosuresUnconfirmed ==
    UNION { Detect(tx, "unconfirmed", "FALLBACK") : tx \in incoming }
FallbackClosures ==
    UNION { Detect(tx, "confirmed", "FALLBACK") : tx \in incoming }

\* subscription callback of /blocks/new
PWOnNewBlockMatches ==
    /\ "/blocks/new" \in pwSubs
    /\ StartAcks(FallbackClosures)
    /\ UNCHANGED <<socketById, openChannels, socketIds, undelivered,
                   acknowledged, incoming, queries, emitted, windows>>
    /\ UNCHANGED <<now, nodeSelection, logged, connVars, auditVars>>
PWOnNewBlock ==
    /\ "/blocks/new" \in pwSubs
    /\ WebsocketFallbackHandler
    /\ UNCHANGED <<socketById, openChannels, socketIds, undelivered,
                   acknowledged, incoming, pendingAcks,
                   emitted, calls, windows>>
    /\ UNCHANGED <<now, nodeSelection, logged, connVars, auditVars>>

\* the incomingTransactions request resolves
FallbackResultDropped ==
    /\ queries > 0
    /\ queries' = queries - 1
    /\ UNCHANGED <<socketById, openChannels, socketIds, undelivered,
                   acknowledged, incoming, pendingAcks, emitted, calls, windows>>
    /\ UNCHANGED <<now, nodeSelection, logged, connVars, auditVars>>
FallbackResult ==
    /\ queries > 0
    /\ queries' = queries - 1
    /\ StartAcks(FallbackClosures)
    /\ UNCHANGED <<socketById, openChannels, socketIds, undelivered,
                   acknowledged, incoming, emitted, windows>>
    /\ UNCHANGED <<now, nodeSelection, logged, connVars, auditVars>>

\* the request is rejected: the error is logged
FallbackErrorStopsTimers ==
    /\ queries > 0
    /\ queries' = queries - 1
    /\ LogError("FALLBACK")
    /\ windows' = BagOfAll(LAMBDA w : [w EXCEPT !.interval = FALSE], windows)
    /\ UNCHANGED <<socketById, openChannels, socketIds, undelivered,
                   acknowledged, incoming, pendingAcks, emitted, calls>>
    /\ UNCHANGED <<now, nodeSelection, connVars, auditVars>>
FallbackError ==
    /\ queries > 0
    /\ queries' = queries - 1
    /\ LogError("FALLBACK")
    /\ UNCHANGED <<socketById, openChannels, socketIds, undelivered,
                   acknowledged, incoming, pendingAcks,
                   emitted, calls, windows>>
    /\ UNCHANGED <<now, nodeSelection, connVars, auditVars>>

(* ------------------ payment watcher: channel windows ------------------- *)
\* values of params.duration
NoValue == [kind |-> "undefined", v |-> 0]
Num(n) == [kind |-> "num", v |-> n]
Text == [kind |-> "text", v |-> 0]
NaN == [kind |-> "nan", v |-> 0]
ParamsInputs ==
    { [given |-> FALSE, duration |-> NoValue],
      [given |-> TRUE, duration |-> NoValue],
      [given |-> TRUE, duration |-> Num(0)],
      [given |-> TRUE, duration |-> Num(1000)],
      [given |-> TRUE, duration |-> Num(30000)],
      [given |-> TRUE, duration |-> Text] }

Truthy(x) == (x.kind = "num" /\ x.v # 0) \/ x.kind = "text"
ParseInt(x) == IF x.kind = "num" THEN x ELSE NaN

\* duration_ of forwardPaymentUpdates
Duration(params) ==
    LET raw == IF params.given /\ Truthy(params.duration)
               THEN params.duration
               ELSE ConfReadDuration
        parsed == ParseInt(raw)
    IN  IF parsed.kind = "nan" \/ parsed.v <= 0
        THEN DefaultDurationMs
        ELSE parsed.v

\* PaymentProcessor.forwardPaymentUpdates, called by the backend-facing
\* server once it has registered the consumer on the channel
ForwardPaymentUpdatesOverwrite(forwardedToSocket, paymentChannel, params) ==
    /\ BagCardinality(windows) < MaxOpens
    /\ openChannels' = openChannels \cup {paymentChannel}
    /\ socketIds' = RegisterConsumer(paymentChannel, forwardedToSocket.id)
    /\ socketById' = { x \in socketById : x.id # forwardedToSocket.id }
                         \cup {forwardedToSocket}
    /\ windows' = windows (+) SetToBag({
                        [chan |-> paymentChannel,
                         start |-> now,
                         endTime |-> now + Duration(params),
                         nextDue |-> now + FallbackIntervalMs,
                         interval |-> TRUE,
                         timeout |-> TRUE,
                         immediate |-> 1,
                         ticks |-> 0,
                         finals |-> 0,
                         finalAt |-> 0]})
    /\ WebsocketFallbackHandler
    /\ UNCHANGED <<acknowledged, incoming, pendingAcks, emitted, undelivered, calls>>
    /\ UNCHANGED <<now, nodeSelection, logged, connVars, auditVars>>
ForwardPaymentUpdates(forwardedToSocket, paymentChannel, params) ==
    /\ BagCardinality(windows) < MaxOpens
    /\ openChannels' = openChannels \cup {paymentChannel}
    /\ socketIds' = RegisterConsumer(paymentChannel, forwardedToSocket.id)
    /\ socketById' = IF HasSocket(forwardedToSocket.id)
                     THEN socketById
                     ELSE socketById \cup {forwardedToSocket}
    /\ windows' = windows (+) SetToBag({
                        [chan |-> paymentChannel,
                         start |-> now,
                         endTime |-> now + Duration(params),
                         nextDue |-> now + FallbackIntervalMs,
                         interval |-> TRUE,
                         timeout |-> TRUE,
                         immediate |-> 1,
                         ticks |-> 0,
                         finals |-> 0,
                         finalAt |-> 0]})
    /\ WebsocketFallbackHandler
    /\ UNCHANGED <<acknowledged, incoming, pendingAcks, emitted, undelivered, calls>>
    /\ UNCHANGED <<now, nodeSelection, logged, connVars, auditVars>>

\* the setInterval callback of the window w
FallbackIntervalFire(w) ==
    /\ BagIn(w, windows)
    /\ w.interval
    /\ now >= w.nextDue
    /\ windows' = (windows (-) SetToBag({w})) (+)
                  SetToBag({[w EXCEPT !.nextDue = @ + FallbackIntervalMs,
                                      !.ticks = @ + 1]})
    /\ WebsocketFallbackHandler
    /\ UNCHANGED <<socketById, openChannels, socketIds, undelivered,
                   acknowledged, incoming, pendingAcks,
                   emitted, calls>>
    /\ UNCHANGED <<now, nodeSelection, logged, connVars, auditVars>>

\* the setTimeout callback of the window w: clearInterval and one last scan
FallbackTimeoutFireNoClear(w) ==
    /\ BagIn(w, windows)
    /\ w.timeout
    /\ now >= w.endTime
    /\ windows' = (windows (-) SetToBag({w})) (+)
                  SetToBag({[w EXCEPT !.timeout = FALSE,
                                      !.finals = @ + 1,
                                      !.finalAt = now]})
    /\ WebsocketFallbackHandler
    /\ UNCHANGED <<socketById, openChannels, socketIds, undelivered,
                   acknowledged, incoming, pendingAcks,
                   emitted, calls>>
    /\ UNCHANGED <<now, nodeSelection, logged, connVars, auditVars>>
FallbackTimeoutFire(w) ==
    /\ BagIn(w, windows)
    /\ w.timeout
    /\ now >= w.endTime
    /\ windows' = (windows (-) SetToBag({w})) (+)
                  SetToBag({[w EXCEPT !.interval = FALSE,
                                      !.timeout = FALSE,
                                      !.finals = @ + 1,
                                      !.finalAt = now]})
    /\ WebsocketFallbackHandler
    /\ UNCHANGED <<socketById, openChannels, socketIds, undelivered,
                   acknowledged, incoming, pendingAcks,
                   emitted, calls>>
    /\ UNCHANGED <<now, nodeSelection, logged, connVars, auditVars>>

(* ------------------------------- clock --------------------------------- *)
\* due times of the timers that are still armed
PayDeadlines ==
    { w.nextDue : w \in { x \in BagToSet(windows) : x.interval } }
    \cup { w.endTime : w \in { x \in BagToSet(windows) : x.timeout } }
AuditDeadlines ==
    { t.due : t \in { x \in BagToSet(auditTimers) : x.active } }
Deadlines == PayDeadlines \cup AuditDeadlines

\* time passes up to t: no armed timer is due before t
Advance(t) ==
    /\ t > now
    /\ \A d \in Deadlines : t <= d
    /\ now' = t

\* time passes until the next fallback timer is due
PayTick ==
    /\ PayDeadlines # {}
    /\ Min(PayDeadlines) <= MaxPayTime
    /\ Advance(Min(PayDeadlines))
    /\ UNCHANGED <<nodeSelection, logged, payVars, auditVars>>

(* --------------------------- liveness auditor -------------------------- *)
\* node-selection collaborator: autoSwitchNode selects another node
AutoSwitchNode(n) == Nodes \ {n}

\* BlocksAuditor.registerBlockDelayAuditor: one more setInterval
RegisterBlockDelayAuditor(timers) ==
    timers (+) SetToBag({[due |-> now + AuditIntervalMs, active |-> TRUE]})

\* BlocksAuditor.connectBlockchainSocket, given the timers as left by the
\* caller: a new socket object for the selected node, connectWS, and
\* registerBlockDelayAuditor
BAConnectBlockchainSocket(timers) ==
    /\ baEndpoint' = nodeSelection'
    /\ baState' = "CONNECTING"
    /\ baSubs' = {}
    /\ baAttempts' = 1
    /\ BagCardinality(timers) < MaxAuditTimers
    /\ auditTimers' = RegisterBlockDelayAuditor(timers)

\* the bot's bootstrap opens the auditor's connection once
BAStart ==
    /\ baState = "DISCONNECTED"
    /\ UNCHANGED nodeSelection
    /\ BAConnectBlockchainSocket(auditTimers)
    /\ UNCHANGED <<heartbeats, heightQueries, failoversSinceBeat>>
    /\ UNCHANGED <<now, logged, payVars>>

\* the onReady callback of connectWS: the two subscribeWS calls
BAOnConnected ==
    /\ baState = "CONNECTING"
    /\ baState' = "CONNECTED"
    /\ baSubs' = AuditTopics
    /\ baAttempts' = baAttempts - 1
    /\ UNCHANGED <<baEndpoint, auditTimers, heartbeats,
                   heightQueries, failoversSinceBeat>>
    /\ UNCHANGED <<now, nodeSelection, logged, payVars>>

\* the onReady callback when a subscribeWS call throws: the catch block
\* restarts the connection process
BAOnConnectedThrows ==
    /\ baState = "CONNECTING"
    /\ UNCHANGED nodeSelection
    /\ BAConnectBlockchainSocket(auditTimers)
    /\ UNCHANGED <<heartbeats, heightQueries, failoversSinceBeat>>
    /\ UNCHANGED <<now, logged, payVars>>

\* websocketErrorHandler of the auditor
BAWebsocketErrorHandler(error) ==
    /\ baState \in {"CONNECTING", "CONNECTED"}
    /\ IF RegexpLostConnTest(error)
       THEN /\ UNCHANGED <<nodeSelection, logged>>
            /\ BAConnectBlockchainSocket(auditTimers)
       ELSE /\ LogError("BA-UNCAUGHT")
            /\ UNCHANGED <<nodeSelection, baEndpoint, baState, baSubs, baAttempts,
                           auditTimers>>
    /\ UNCHANGED <<heartbeats, heightQueries, failoversSinceBeat>>
    /\ UNCHANGED <<now, payVars>>

\* new NEMBlockHeight({blockHeight, createdAt: now}).save()
SaveBlock(height) ==
    /\ Cardinality(heartbeats) < MaxBeats
    /\ heartbeats' = heartbeats \cup {[blockHeight |-> height, createdAt |-> now]}
    /\ failoversSinceBeat' = 0

\* subscription callback of /blocks/new
BAOnNewBlock(height) ==
    /\ "/blocks/new" \in baSubs
    /\ SaveBlock(height)
    /\ UNCHANGED <<baState, baEndpoint, baSubs, baAttempts, auditTimers, heightQueries>>
    /\ UNCHANGED <<now, nodeSelection, logged, payVars>>

\* BlocksAuditor.websocketFallbackHandler: the chain.height request is sent
BAWebsocketFallbackHandler ==
    /\ heightQueries < MaxQueries
    /\ heightQueries' = heightQueries + 1

\* the chain.height request resolves
BAHeightResult(height) ==
    /\ heightQueries > 0
    /\ heightQueries' = heightQueries - 1
    /\ SaveBlock(height)
    /\ UNCHANGED <<baState, baEndpoint, baSubs, baAttempts, auditTimers>>
    /\ UNCHANGED <<now, nodeSelection, logged, payVars>>

\* the chain.height request is rejected; there is no rejection handler
BAHeightError ==
    /\ heightQueries > 0
    /\ heightQueries' = heightQueries - 1
    /\ UNCHANGED <<baState, baEndpoint, baSubs, baAttempts, auditTimers,
                   heartbeats, failoversSinceBeat>>
    /\ UNCHANGED <<now, nodeSelection, logged, payVars>>

\* NEMBlockHeight.findOne({}, null, {sort: {blockHeight: -1}}): a record of
\* greatest blockHeight
FindOneByHeight == { b \in heartbeats : \A o \in heartbeats : o.blockHeight <= b.blockHeight }

\* the staleness test of the audit callback on the record read (none when the
\* store is empty)
IsStale(found) ==
    \/ found = {}
    \/ \E block \in found : block.createdAt <= now - MaxBlockAgeMs

\* the setInterval callback of the audit timer t whose findOne reports an
\* error
AuditFireReadError(t) ==
    /\ BagIn(t, auditTimers)
    /\ t.active
    /\ now >= t.due
    /\ UNCHANGED nodeSelection
    /\ BAConnectBlockchainSocket(
           (auditTimers (-) SetToBag({t})) (+)
           SetToBag({[due |-> t.due + AuditIntervalMs, active |-> FALSE]}))
    /\ UNCHANGED <<heartbeats, heightQueries, failoversSinceBeat>>
    /\ UNCHANGED <<now, logged, payVars>>

\* the setInterval callback of the audit timer t whose findOne returns the
\* record in `found`
AuditFire(t, found) ==
    /\ BagIn(t, auditTimers)
    /\ t.active
    /\ now >= t.due
    /\ auditTimers' = (auditTimers (-) SetToBag({t})) (+)
                      SetToBag({[t EXCEPT !.due = @ + AuditIntervalMs]})
    /\ IF IsStale(found)
       THEN /\ failoversSinceBeat < MaxFailovers
            /\ nodeSelection' \in AutoSwitchNode(nodeSelection)
            /\ failoversSinceBeat' = failoversSinceBeat + 1
            /\ BAWebsocketFallbackHandler
       ELSE UNCHANGED <<nodeSelection, failoversSinceBeat, heightQueries>>
    /\ UNCHANGED <<baState, baEndpoint, baSubs, baAttempts, heartbeats>>
    /\ UNCHANGED <<now, logged, payVars>>

\* time passes by one step of the audit clock
AuditTick ==
    /\ now + AuditStepMs <= MaxAuditTime
    /\ Advance(now + AuditStepMs)
    /\ UNCHANGED <<nodeSelection, logged, payVars, auditVars>>

(* --------------------------- specifications ---------------------------- *)
\* connection errors that report a lost connection
DropErrors == { error \in ErrorTexts : RegexpLostConnTest(error) }

ConnNext ==
    \/ PWStart
    \/ PWOnConnected
    \/ \E error \in ErrorTexts : PWWebsocketErrorHandler(error)

\* detection, acknowledgement and forwarding on an established connection
DetectNext ==
    \/ PWStart
    \/ PWOnConnected
    \/ \E tx \in RawTxs : NodeConfirms(tx)
    \/ \E tx \in RawTxs : PWOnUnconfirmed(tx)
    \/ \E tx \in RawTxs : PWOnConfirmed(tx)
    \/ PWOnNewBlock
    \/ FallbackResult
    \/ \E p \in BagToSet(pendingAcks) : AckDone(p)
    \/ \E p \in BagToSet(pendingAcks) : AckFail(p)
    \/ \E s \in {x \in Sockets : x.conn = 1}, c \in Channels :
          ForwardPaymentUpdates(s, c, [given |-> FALSE, duration |-> NoValue])

\* the fallback schedule of the channel windows
WindowNext ==
    \/ PWStart
    \/ PWOnConnected
    \/ PWOnNewBlock
    \/ FallbackResult
    \/ \E s \in {x \in Sockets : x.id = "s1"}, c \in Channels, params \in ParamsInputs :
          ForwardPaymentUpdates(s, c, params)
    \/ \E w \in BagToSet(windows) : FallbackIntervalFire(w)
    \/ \E w \in BagToSet(windows) : FallbackTimeoutFire(w)
    \/ PayTick

\* connection errors of both watchers, with their timers armed
ErrorNext ==
    \/ ConnNext
    \/ BAStart
    \/ BAOnConnected
    \/ BAOnConnectedThrows
    \/ \E error \in ErrorTexts : BAWebsocketErrorHandler(error)
    \/ ForwardPaymentUpdates([id |-> "s1", conn |-> 1], "c1",
                             [given |-> FALSE, duration |-> NoValue])
    \/ FallbackResult

\* the scans of one channel window, with queries that fail
ScanNext ==
    \/ PWStart
    \/ PWOnConnected
    \/ PWOnNewBlock
    \/ \E tx \in {x \in RawTxs : x.match = "c1"} : NodeConfirms(tx)
    \/ FallbackResult
    \/ FallbackError
    \/ \E p \in BagToSet(pendingAcks) : AckDone(p)
    \/ ForwardPaymentUpdates([id |-> "s1", conn |-> 1], "c1",
                             [given |-> FALSE, duration |-> NoValue])
    \/ \E w \in BagToSet(windows) : FallbackIntervalFire(w)
    \/ \E w \in BagToSet(windows) : FallbackTimeoutFire(w)
    \/ PayTick

\* delivery to the consumers of one channel
DeliverNext ==
    \/ PWStart
    \/ PWOnConnected
    \/ \E error \in DropErrors : PWWebsocketErrorHandler(error)
    \/ \E ids \in {<<>>, <<"s2">>} : StoreOpensChannel("c1", ids)
    \/ \E s \in Sockets : ForwardPaymentUpdates(s, "c1", [given |-> FALSE, duration |-> NoValue])
    \/ \E tx \in {x \in RawTxs : x.hash = "A2"} : NodeConfirms(tx)
    \/ \E tx \in {x \in RawTxs : x.hash = "A2"} : PWOnUnconfirmed(tx)
    \/ \E tx \in {x \in RawTxs : x.hash = "A2"} : PWOnConfirmed(tx)
    \/ FallbackResult
    \/ \E p \in BagToSet(pendingAcks) : AckDone(p)
    \/ \E e \in BagToSet(emitted) : DeliveryFails(e)

\* the transaction followed through recovery
RecoverTxs == { x \in RawTxs : x.hash = "A2" }

\* the windows that are still to expire within the time modelled: their
\* closing scan is still to come
ClosingWindows == { w \in BagToSet(windows) : w.timeout /\ w.endTime <= MaxPayTime }
ClosingScanAhead == ClosingWindows # {}

\* recovery by the scans of a window while the push feed delivers nothing:
\* requests and store calls may fail until the window closes, the closing scan
\* and its store calls succeed
RecoverNext ==
    \/ \E tx \in RecoverTxs : NodeConfirms(tx)
    \/ FallbackResult
    \/ ClosingScanAhead /\ FallbackError
    \/ \E p \in BagToSet(pendingAcks) : AckDone(p)
    \/ \E p \in BagToSet(pendingAcks) : ClosingScanAhead /\ AckFail(p)
    \/ ForwardPaymentUpdates([id |-> "s1", conn |-> 1], "c1",
                             [given |-> FALSE, duration |-> NoValue])
    \/ \E w \in BagToSet(windows) : FallbackIntervalFire(w)
    \/ \E w \in BagToSet(windows) : FallbackTimeoutFire(w)
    \/ PayTick

PayNext == DetectNext \/ WindowNext \/ ErrorNext \/ ScanNext \/ DeliverNext \/ RecoverNext

AuditNext ==
    \/ BAStart
    \/ BAOnConnected
    \/ BAOnConnectedThrows
    \/ \E error \in DropErrors : BAWebsocketErrorHandler(error)
    \/ \E h \in 1..MaxHeight : BAOnNewBlock(h)
    \/ \E h \in 1..MaxHeight : BAHeightResult(h)
    \/ BAHeightError
    \/ \E t \in BagToSet(auditTimers) : AuditFireReadError(t)
    \/ \E t \in BagToSet(auditTimers) :
          \E found \in {{}} \cup {{b} : b \in FindOneByHeight} :
             (found = {} => heartbeats = {}) /\ AuditFire(t, found)
    \/ AuditTick

\* failover of the auditor and (re)connection of the payment watcher
FailoverNext ==
    \/ AuditNext
    \/ PWStart
    \/ PWOnConnected
    \/ \E error \in DropErrors : PWWebsocketErrorHandler(error)

Next == PayNext \/ AuditNext

Spec == Init /\ [][Next]_vars
SpecDetect == Init /\ [][DetectNext]_vars
SpecWindow == Init /\ [][WindowNext]_vars
SpecAudit == Init /\ [][AuditNext]_vars
SpecFailover == Init /\ [][FailoverNext]_vars
SpecErrors == Init /\ [][ErrorNext]_vars
SpecScan == Init /\ [][ScanNext]_vars
SpecDeliver == Init /\ [][DeliverNext]_vars

\* timers fire when they are due, and requests and store calls in flight
\* complete
SpecRecover ==
    /\ Init /\ [][RecoverNext]_vars
    /\ WF_vars(PayTick)
    /\ WF_vars(\E w \in BagToSet(windows) : FallbackIntervalFire(w))
    /\ WF_vars(\E w \in BagToSet(windows) : FallbackTimeoutFire(w))
    /\ WF_vars(FallbackResult)
    /\ WF_vars(\E p \in BagToSet(pendingAcks) : AckDone(p))

(* ------------------------------ properties ----------------------------- *)
\* number of updates sent for a (channel, hash, status)
EmittedFor(c, h, st) ==
    { e \in BagToSet(emitted) : e.chan = c /\ e.hash = h /\ e.status = st }
EmittedCount(c, h, st) ==
    BagCardinality([e \in EmittedFor(c, h, st) |-> emitted[e]])

\* number of handler invocations for a (channel, hash, status) by a gateway
CallCount(c, h, st, g) ==
    LET k == [chan |-> c, hash |-> h, status |-> st, gateway |-> g]
    IN  CopiesIn(k, calls)

PendingFor(c, h) ==
    { p \in BagToSet(pendingAcks) : p.chan = c /\ p.trxHash = h }

\* C1: for every (channel, normalized hash, status), whatever the interleaving
\* of push messages and fallback scans, an update is sent exactly when the
\* triple has been acknowledged for the first time and never again: one update
\* if the triple is acknowledged, none otherwise.
C1_AtMostOnce ==
    /\ \A e \in BagToSet(emitted) :
          /\ <<e.chan, e.hash, e.status>> \in acknowledged
          /\ EmittedCount(e.chan, e.hash, e.status) = 1
    /\ \A k \in acknowledged : EmittedCount(k[1], k[2], k[3]) = 1

\* the matched-acknowledge path has run twice to completion for one triple
C1_Witness ==
    \E c \in Channels, h \in Hashes, st \in Statuses :
        /\ CallCount(c, h, st, "SOCKET") + CallCount(c, h, st, "FALLBACK") >= 2
        /\ PendingFor(c, h) = {}
        /\ <<c, h, st>> \in acknowledged
        /\ EmittedCount(c, h, st) = 1

EmittedTotal(c, h) == EmittedCount(c, h, "unconfirmed") + EmittedCount(c, h, "confirmed")
AckedStatuses(c, h) == { st \in Statuses : <<c, h, st>> \in acknowledged }

\* one detection by a fallback scan and one by the push feed, both completed
DualPath(c, h) ==
    /\ CallCount(c, h, "confirmed", "FALLBACK") = 1
    /\ CallCount(c, h, "confirmed", "SOCKET") + CallCount(c, h, "unconfirmed", "SOCKET") = 1
    /\ CallCount(c, h, "unconfirmed", "FALLBACK") = 0
    /\ PendingFor(c, h) = {}

\* C2 as stated: one fallback detection and one push detection, on either
\* push topic, whose acknowledgements were recorded, send exactly one update.
C2_Original ==
    \A k \in BagToSet(calls) :
        LET c == k.chan
            h == k.hash
        IN  (DualPath(c, h) /\ AckedStatuses(c, h) # {}) => EmittedTotal(c, h) = 1

\* C2 (amended): one fallback detection and one detection on the push feed's
\* confirmed topic send exactly one update once an acknowledgement is recorded;
\* when the push detection is on the unconfirmed topic the updates sent are one
\* per acknowledged status.
C2_DualPath ==
    \A k \in BagToSet(calls) :
        LET c == k.chan
            h == k.hash
        IN  DualPath(c, h) =>
            /\ EmittedTotal(c, h) = Cardinality(AckedStatuses(c, h))
            /\ CallCount(c, h, "confirmed", "SOCKET") = 1 =>
                  /\ EmittedTotal(c, h) <= 1
                  /\ AckedStatuses(c, h) # {} => EmittedCount(c, h, "confirmed") = 1

C2_Witness ==
    \E c \in Channels, h \in Hashes :
        /\ DualPath(c, h)
        /\ CallCount(c, h, "confirmed", "SOCKET") = 1
        /\ EmittedTotal(c, h) = 1

\* inputs of the two hash computations
HashInputs ==
    [hash : {"A1", "A2"}, innerHash : {Absent, Str(""), Str("B1"), Str("A1")}]

\* C3: the normalized identifier is the inner hash when it is non-empty and
\* the outer hash otherwise, and getTransactionHash and the hash computed
\* inline by the forwarding handler agree on every transaction.
C3_Normalization ==
    /\ \A tx \in HashInputs :
          /\ GetTransactionHash(tx) =
                IF tx.innerHash.present /\ tx.innerHash.data # ""
                THEN tx.innerHash.data
                ELSE tx.hash
          /\ GetTransactionHash(tx) = HandlerTrxHash(tx)
    /\ \A p \in BagToSet(pendingAcks) :
          /\ p.feedHash = p.trxHash
          /\ p.trxHash \in {p.tx.hash, p.tx.innerHash.data}
          /\ p.trxHash # ""

\* a wrapped transaction and one with an empty inner hash are both in the
\* handler
C3_Witness ==
    \E p, q \in BagToSet(pendingAcks) :
        /\ p.tx.innerHash.data = "B1" /\ p.trxHash = "B1"
        /\ q.tx.innerHash = Str("") /\ q.trxHash = q.tx.hash

ActiveAuditTimers ==
    LET active == { t \in BagToSet(auditTimers) : t.active }
    IN  BagCardinality([t \in active |-> auditTimers[t]])

\* C6: while no heartbeat is recorded after the one that went stale, the
\* auditor requests exactly one failover, not several, also when its
\* connection was dropped and re-established before.
C6_OneFailoverPerEpisode ==
    heartbeats # {} => failoversSinceBeat <= 1

\* C7: an audit tick whose read of the heartbeat store fails requests a node
\* failover and reconnects, as a stale heartbeat does.
C7_ReadFailureFailsOver ==
    [][ \A t \in BagToSet(auditTimers) :
            AuditFireReadError(t) =>
                /\ nodeSelection' # nodeSelection
                /\ baState' = "CONNECTING" ]_vars

\* C8: every connect or reconnect attempt of either watcher targets the node
\* that is selected when the attempt is made, so after a failover never the
\* node in use before it.
C8_ConnectsFollowFailover ==
    [][ /\ (PWStart \/ \E error \in ErrorTexts :
                          RegexpLostConnTest(error) /\ PWWebsocketErrorHandler(error))
              => pwTarget' = nodeSelection'
        /\ (baAttempts' = 1 /\ BagCardinality(auditTimers') > BagCardinality(auditTimers))
              => baEndpoint' = nodeSelection' ]_vars

\* C9: at most one audit timer is active.
C9_OneAuditTimer ==
    ActiveAuditTimers <= 1

\* a channel whose forwarding window has not expired yet
WindowOpen(c) == \E w \in BagToSet(windows) : w.chan = c /\ w.timeout
ActiveFallbackTimers(c) ==
    LET active == { w \in BagToSet(windows) : w.chan = c /\ w.interval }
    IN  BagCardinality([w \in active |-> windows[w]])

\* C10: every open payment channel has exactly one active fallback-poll
\* timer, also when forwardPaymentUpdates was called again for it.
C10_OneFallbackTimerPerChannel ==
    \A c \in Channels :
        WindowOpen(c) => ActiveFallbackTimers(c) = 1

\* audit timers on which clearInterval has been called
CancelledAuditTimers == { t \in BagToSet(auditTimers) : ~t.active }

\* C11: the only timer ever cancelled is a channel's fallback timer, and only
\* by the expiry of its own window: no audit timer is ever cancelled, and a
\* fallback timer that is cancelled belongs to a window whose duration has
\* elapsed.
C11_OnlyExpiryCancels ==
    /\ CancelledAuditTimers = {}
    /\ \A w \in BagToSet(windows) :
          ~w.interval => ~w.timeout /\ w.finalAt >= w.endTime

\* error lines of failed incomingTransactions requests
QueryFailures == { l \in logged : l.tag = "FALLBACK" }

\* C12: a failed incomingTransactions request is only logged: the step
\* changes no timer, starts no acknowledgement and sends no update; the
\* interval timer of a window that was open at the failure stays armed until
\* the window expires, and every interval tick and every window close issues
\* a scan.
C12_QueryFailureOnlyLogged ==
    /\ [][ /\ FallbackError =>
                  /\ UNCHANGED <<windows, emitted, pendingAcks, calls, acknowledged>>
                  /\ QueryFailures' # {}
            /\ \A w \in BagToSet(windows) :
                  (FallbackIntervalFire(w) \/ FallbackTimeoutFire(w)) =>
                      queries' = queries + 1 ]_vars
    /\ [](\A l \in QueryFailures, w \in BagToSet(windows) :
            (w.start <= l.at /\ l.at < w.endTime) =>
                /\ w.timeout => w.interval /\ now <= w.nextDue
                /\ ~w.timeout => w.finals = 1 /\ w.finalAt >= l.at)

\* the immediate scan of a window failed; the window ticked afterwards and
\* made its final scan
C12_Witness ==
    \E l \in QueryFailures, w \in BagToSet(windows) :
        /\ l.at = w.start
        /\ w.ticks >= 1
        /\ w.nextDue - FallbackIntervalMs > l.at
        /\ w.finals = 1
        /\ w.finalAt > l.at

\* C13: an update that did not reach its consumer is not sent again and its
\* (channel, hash, status) stays acknowledged, so that later detections of
\* the transaction with that status, by push or by scan, send nothing.
C13_UndeliveredStaysAcknowledged ==
    \A u \in undelivered :
        LET e == u.update
        IN  /\ <<e.chan, e.hash, e.status>> \in acknowledged
            /\ EmittedCount(e.chan, e.hash, e.status) = 1

\* the update of the first detection was lost; a second detection of the
\* same triple was made afterwards and has completed
C13_Witness ==
    \E u \in undelivered :
        LET e == u.update
        IN  /\ u.callsAt = 1
            /\ BagCardinality(calls) = 2
            /\ CallCount(e.chan, e.hash, e.status, "SOCKET")
                 + CallCount(e.chan, e.hash, e.status, "FALLBACK") = 2
            /\ pendingAcks = EmptyBag
            /\ EmittedCount(e.chan, e.hash, e.status) = 1

\* connection errors whose text does not contain "Lost connection to"
OtherErrors == { <<"Lost", "connection">>, <<"connect", "ECONNREFUSED">> }

\* C14: the error handler of either watcher, given a connection error that
\* does not contain "Lost connection to", writes an error line and changes
\* nothing else: connection state, connect attempts, subscriptions and timers
\* of both watchers stay as they are.
C14_OtherErrorsChangeNothing ==
    [][ \A error \in OtherErrors :
            (PWWebsocketErrorHandler(error) \/ BAWebsocketErrorHandler(error)) =>
                UNCHANGED <<now, nodeSelection, payVars, auditVars>> ]_vars

\* both watchers have logged an uncaught error and are connected, subscribed
\* and have their timers armed
C14_Witness ==
    /\ \E l \in logged : l.tag = "PW-UNCAUGHT"
    /\ \E l \in logged : l.tag = "BA-UNCAUGHT"
    /\ pwState = "CONNECTED" /\ pwSubs = PayTopics /\ pwAttempts = 0
    /\ baState = "CONNECTED" /\ baSubs = AuditTopics /\ baAttempts = 0
    /\ ActiveAuditTimers >= 1
    /\ \E w \in BagToSet(windows) : w.interval /\ w.timeout

\* C15: an audit tick whose read succeeds requests a failover exactly when
\* there is no heartbeat or the heartbeat read is older than 5 minutes; a
\* heartbeat aged 5 minutes or less causes none.
C15_FailoverIffOlderThanLimit ==
    [][ \A t \in BagToSet(auditTimers) :
          \A found \in {{}} \cup {{b} : b \in heartbeats} :
            ((found = {} <=> heartbeats = {}) /\ AuditFire(t, found)) =>
                ( nodeSelection' # nodeSelection <=>
                    \/ found = {}
                    \/ \E block \in found : now - block.createdAt > MaxBlockAgeMs ) ]_vars

\* C16: the heartbeat an audit tick reads is the most recently observed one:
\* no recorded heartbeat has a later observation time, whatever the block
\* heights of the recorded heartbeats.
C16_ReadsMostRecentHeartbeat ==
    [][ \A t \in BagToSet(auditTimers) :
          \A b \in FindOneByHeight :
            AuditFire(t, {b}) =>
                \A o \in heartbeats : o.createdAt <= b.createdAt ]_vars

\* the updates sent by the step
NewlyEmitted == { e \in BagToSet(emitted') : CopiesIn(e, emitted') > CopiesIn(e, emitted) }

\* the current forwarding target of a channel
CurrentTarget(c) == socketIds[c][Len(socketIds[c])]

\* C17: an update is addressed to the last entry that the channel's socketIds
\* has when the update is sent, also when a consumer identifier was appended
\* after the transaction was matched.
C17_AddressedToCurrentTarget ==
    [][ \A p \in BagToSet(pendingAcks) :
            (AckDone(p) /\ Len(socketIds[p.chan]) > 0) =>
                \A e \in NewlyEmitted : e.to = CurrentTarget(p.chan) ]_vars

\* C18: the first acknowledgement of a (channel, hash, status) sends exactly
\* one update: on the consumer handle when the registry holds a handle for
\* the identifier it is addressed to, through the gateway otherwise; this
\* includes a channel whose socketIds is empty.
C18_ExactlyOneEmit ==
    [][ \A p \in BagToSet(pendingAcks) :
            (AckDone(p) /\ AckKey(p) \notin acknowledged) =>
                /\ BagCardinality(emitted') = BagCardinality(emitted) + 1
                /\ \A e \in NewlyEmitted :
                      e.via = IF HasSocket(e.to) THEN "direct" ELSE "broadcast" ]_vars

\* C19: the registry of consumer handles changes only in a step of
\* forwardPaymentUpdates, and only by gaining the handle passed to it under an
\* identifier that had no entry: no entry is ever replaced or removed, by
\* delivery, scans or reconnects either.
C19_RegistryOnlyGrowsByRegistration ==
    [][ /\ socketById \subseteq socketById'
        /\ \A x, y \in socketById' : x.id = y.id => x = y
        /\ socketById' # socketById =>
              \E forwardedToSocket \in Sockets, c \in Channels, params \in ParamsInputs :
                 /\ ForwardPaymentUpdates(forwardedToSocket, c, params)
                 /\ ~HasSocket(forwardedToSocket.id)
                 /\ socketById' = socketById \cup {forwardedToSocket} ]_vars

\* forwardPaymentUpdates has run twice for one consumer identifier, an update
\* was delivered on the handle and the connection was re-established
C19_Witness ==
    /\ BagCardinality(windows) >= 2
    /\ Cardinality(socketById) = 1
    /\ \E e \in BagToSet(emitted) : e.via = "direct"
    /\ pwCause = "drop" /\ pwState = "CONNECTED"

\* C20: a new-block message on the payment watcher's push feed issues
\* exactly one incomingTransactions request, with or without an open window,
\* and the step itself starts no acknowledgement and sends no update; an
\* update of the fallback path is for a transaction found in the node's
\* incoming transactions and is sent once.
C20_NewBlockTriggersOneScan ==
    /\ [][ PWOnNewBlock =>
              /\ queries' = queries + 1
              /\ UNCHANGED <<emitted, pendingAcks, calls, acknowledged, windows>> ]_vars
    /\ [](\A e \in BagToSet(emitted) :
            e.gateway = "FALLBACK" =>
                /\ \E tx \in incoming : tx.match = e.chan /\ GetTransactionHash(tx) = e.hash
                /\ EmittedCount(e.chan, e.hash, e.status) = 1)

\* a new-block message was handled while no window had been opened: its scan
\* is in flight
C20_Witness ==
    /\ "/blocks/new" \in pwSubs
    /\ windows = EmptyBag
    /\ queries = 1

\* a transaction matching channel c is among the node's incoming
\* transactions while a window of c is open, and has not been forwarded as
\* confirmed
Missed(tx, c) ==
    /\ tx \in incoming
    /\ tx.match = c
    /\ \E w \in ClosingWindows : w.chan = c

Forwarded(tx, c) == EmittedCount(c, GetTransactionHash(tx), "confirmed") >= 1

\* the modelled number of handler invocations is used up
CallsExhausted == BagCardinality(calls) >= MaxCalls

NewlyStarted ==
    { p \in BagToSet(pendingAcks') : CopiesIn(p, pendingAcks') > CopiesIn(p, pendingAcks) }

C23_ReconnectLeavesTimersAndRegistry ==
    [][ /\ \A error \in DropErrors :
              PWWebsocketErrorHandler(error) =>
                  UNCHANGED <<windows, queries, socketById, socketIds>>
        /\ (pwCause = "drop" /\ PWOnConnected) =>
              UNCHANGED <<windows, queries, socketById, socketIds>> ]_vars

\* the connection was re-established after a drop while a channel has its
\* fallback timers armed and its consumer registered
C23_Witness ==
    /\ pwCause = "drop" /\ pwState = "CONNECTED" /\ pwSubs = PayTopics
    /\ \E w \in BagToSet(windows) : w.interval /\ w.timeout
    /\ socketById # {}
    /\ queries = 0

====
